---------------------------- MODULE Spec2Model ----------------------------
(***************************************************************************)
(* Model of niftysentcalc.py: a one-page Streamlit form that turns sixteen *)
(* hand-entered market figures into an opening classification, a composite *)
(* sentiment score, a sentiment label, a probability triple and a rendered *)
(* report.                                                                 *)
(*                                                                         *)
(* Numbers.  Every widget has step 0.01 (or 1.0 for the flows), so a       *)
(* decimal d entered in the form is modelled by the integer 100 * d:       *)
(*   prices          in hundredths of an index point (22000.00 -> 2200000) *)
(*   percent changes in hundredths of a percent      (0.20    -> 20)       *)
(*   VIX level, PCR  in hundredths                   (1.7     -> 170)      *)
(*   FII / DII flows in whole crores                 (1000    -> 1000)     *)
(* A comparison of an entered decimal with a decimal literal of the source *)
(* is the same comparison of the scaled integers.  The opening gap is the  *)
(* one computed quantity: (g - p) / p * 100 compared with 0.2 and 0.75 is  *)
(* modelled exactly, by cross-multiplication.  The values the model draws  *)
(* are ones on which the source's floating-point evaluation gives the      *)
(* exact answer.                                                           *)
(***************************************************************************)
EXTENDS Integers, Sequences, FiniteSets, TLC

VARIABLES
    form,        \* the sixteen number_input widgets (lines 155-186)
    submitted,   \* st.form_submit_button's value in the latest script run (line 192)
    analysis,    \* the module-level names bound by the "if submitted:" block
    page,        \* what the latest script run rendered below the form
    score_arg,   \* argument of a direct call of the score classifiers
    sent_ret,    \* what aggregate_sentiment returned for score_arg
    probs_ret,   \* what scenario_probs returned for score_arg
    report_ret   \* what build_report returned for score_arg

vars == <<form, submitted, analysis, page, score_arg, sent_ret, probs_ret, report_ret>>

\* Largest number of widgets a user changes away from their defaults before
\* pressing the button.
MaxChanged == 2

\* Direct calls of the score classifiers take scores in -MaxScore .. MaxScore.
MaxScore == 17

Abs(x) == IF x < 0 THEN -x ELSE x

None == [kind |-> "none"]
Returned(v) == [kind |-> "returned", value |-> v]


(***************************************************************************)
(* Helper functions (lines 6-105).                                         *)
(***************************************************************************)

\* classify_market_opening with the zero test dropped: Python's division
\* raises ZeroDivisionError on a zero previous close.
classify_unguarded(previous_close, gift_nifty_value) ==
    IF previous_close = 0 THEN <<"ZeroDivisionError", 0>>
    ELSE LET diff == gift_nifty_value - previous_close
             pct_positive == (diff > 0) = (previous_close > 0)
         IN  IF 500 * Abs(diff) < Abs(previous_close)
             THEN <<"Flat Opening", 0>>
             ELSE IF 400 * Abs(diff) <= 3 * Abs(previous_close)
             THEN (IF pct_positive THEN <<"Gap Up Opening", 1>>
                                   ELSE <<"Gap Down Opening", -1>>)
             ELSE (IF pct_positive THEN <<"Huge Gap Up Opening", 2>>
                                   ELSE <<"Huge Gap Down Opening", -2>>)

\* classify_market_opening with the flat band closed (abs(pct_change) <= 0.2).
classify_flat_inclusive(previous_close, gift_nifty_value) ==
    IF previous_close = 0 THEN <<"Data Error", 0>>
    ELSE LET diff == gift_nifty_value - previous_close
             pct_positive == (diff > 0) = (previous_close > 0)
         IN  IF 500 * Abs(diff) <= Abs(previous_close)
             THEN <<"Flat Opening", 0>>
             ELSE IF 400 * Abs(diff) <= 3 * Abs(previous_close)
             THEN (IF pct_positive THEN <<"Gap Up Opening", 1>>
                                   ELSE <<"Gap Down Opening", -1>>)
             ELSE (IF pct_positive THEN <<"Huge Gap Up Opening", 2>>
                                   ELSE <<"Huge Gap Down Opening", -2>>)

\* pct_change = (gift_nifty_value - previous_close) / previous_close * 100, so
\*   abs(pct_change) < 0.2   iff  500 * |diff| <  |previous_close|
\*   abs(pct_change) <= 0.75 iff  400 * |diff| <= 3 * |previous_close|
\*   pct_change > 0          iff  diff and previous_close have the same sign
\*                                (tested only where pct_change is not 0)
\* Returns the pair <<label, points>>.
classify_market_opening(previous_close, gift_nifty_value) ==
    IF previous_close = 0 THEN <<"Data Error", 0>>
    ELSE LET diff == gift_nifty_value - previous_close
             pct_positive == (diff > 0) = (previous_close > 0)
         IN  IF 500 * Abs(diff) < Abs(previous_close)
             THEN <<"Flat Opening", 0>>
             ELSE IF 400 * Abs(diff) <= 3 * Abs(previous_close)
             THEN (IF pct_positive THEN <<"Gap Up Opening", 1>>
                                   ELSE <<"Gap Down Opening", -1>>)
             ELSE (IF pct_positive THEN <<"Huge Gap Up Opening", 2>>
                                   ELSE <<"Huge Gap Down Opening", -2>>)

get_us_individual_points(change_pct) ==
    IF change_pct > 20 THEN 1
    ELSE IF change_pct < -20 THEN -1
    ELSE 0

get_asian_individual_points(change_pct) ==
    IF change_pct > 20 THEN 1
    ELSE IF change_pct < -20 THEN -1
    ELSE 0

india_vix_points(vix_level) ==
    IF vix_level = 0 THEN 0
    ELSE IF vix_level > 2200 THEN -2
    ELSE IF vix_level < 1400 THEN 1
    ELSE 0

cboe_vix_points(cboe_vix_change_pct) ==
    IF cboe_vix_change_pct > 700 THEN -1
    ELSE IF cboe_vix_change_pct < -700 THEN 1
    ELSE 0

\* pcr_return_line with the neutral band opened at 0.7 (0.7 < pcr_value).
pcr_return_line_open(pcr_value) ==
    IF pcr_value = 0 THEN 48
    ELSE IF pcr_value > 170 THEN 49
    ELSE IF 130 < pcr_value /\ pcr_value <= 170 THEN 50
    ELSE IF 70 < pcr_value /\ pcr_value <= 130 THEN 51
    ELSE IF 50 <= pcr_value /\ pcr_value < 70 THEN 52
    ELSE IF pcr_value < 50 THEN 53
    ELSE 54

\* The source line of the return statement pcr_points executes.
pcr_return_line(pcr_value) ==
    IF pcr_value = 0 THEN 48
    ELSE IF pcr_value > 170 THEN 49
    ELSE IF 130 < pcr_value /\ pcr_value <= 170 THEN 50
    ELSE IF 70 <= pcr_value /\ pcr_value <= 130 THEN 51
    ELSE IF 50 <= pcr_value /\ pcr_value < 70 THEN 52
    ELSE IF pcr_value < 50 THEN 53
    ELSE 54

\* The value each return statement of pcr_points returns.
pcr_points(pcr_value) ==
    CASE pcr_return_line(pcr_value) = 48 -> 0
      [] pcr_return_line(pcr_value) = 49 -> 1
      [] pcr_return_line(pcr_value) = 50 -> -1
      [] pcr_return_line(pcr_value) = 51 -> 0
      [] pcr_return_line(pcr_value) = 52 -> 1
      [] pcr_return_line(pcr_value) = 53 -> -1
      [] pcr_return_line(pcr_value) = 54 -> 0

fii_dii_points(net_flow_crores, is_fii) ==
    LET threshold == IF is_fii THEN 1000 ELSE 750
    IN  IF net_flow_crores > threshold THEN 1
        ELSE IF net_flow_crores < -threshold THEN -1
        ELSE 0

crude_oil_points(change_pct) ==
    IF change_pct > 150 THEN -1
    ELSE IF change_pct < -150 THEN 1
    ELSE 0

\* gold_points with the band's edges scored (>= 1.0, <= -1.0).
gold_points_inclusive(change_pct) ==
    IF change_pct >= 100 THEN -1
    ELSE IF change_pct <= -100 THEN 1
    ELSE 0

gold_points(change_pct) ==
    IF change_pct > 100 THEN -1
    ELSE IF change_pct < -100 THEN 1
    ELSE 0

usd_inr_fx_points(change_pct) ==
    IF change_pct > 25 THEN -1
    ELSE IF change_pct < -25 THEN 1
    ELSE 0

aggregate_sentiment(score) ==
    IF score >= 6 THEN "Strongly Bullish"
    ELSE IF score >= 2 THEN "Mildly Bullish"
    ELSE IF score <= -6 THEN "Strongly Bearish"
    ELSE IF score <= -2 THEN "Mildly Bearish"
    ELSE "Neutral / Range-bound"

\* scenario_probs with the strong cutoffs left at the 8 they were adjusted from.
scenario_probs_unadjusted(score) ==
    IF score >= 8 THEN [Up |-> 70, Side |-> 20, Down |-> 10]
    ELSE IF score >= 2 THEN [Up |-> 55, Side |-> 30, Down |-> 15]
    ELSE IF score <= -8 THEN [Up |-> 10, Side |-> 20, Down |-> 70]
    ELSE IF score <= -2 THEN [Up |-> 15, Side |-> 30, Down |-> 55]
    ELSE [Up |-> 33, Side |-> 34, Down |-> 33]

scenario_probs(score) ==
    IF score >= 6 THEN [Up |-> 70, Side |-> 20, Down |-> 10]
    ELSE IF score >= 2 THEN [Up |-> 55, Side |-> 30, Down |-> 15]
    ELSE IF score <= -6 THEN [Up |-> 10, Side |-> 20, Down |-> 70]
    ELSE IF score <= -2 THEN [Up |-> 15, Side |-> 30, Down |-> 55]
    ELSE [Up |-> 33, Side |-> 34, Down |-> 33]

(***************************************************************************)
(* build_report (lines 107-141).  The report is modelled by the values its *)
(* markdown shows, not by the markdown text.                               *)
(***************************************************************************)

\* The keys of the dict scenario_probs returns, in insertion order.
ProbKeys == <<"Up", "Side", "Down">>

\* max(probs, key=probs.get): the first key, in iteration order, whose value
\* no other key's value exceeds.
primary_scenario(probs) ==
    LET best(i) == \A j \in 1..Len(ProbKeys) : probs[ProbKeys[j]] <= probs[ProbKeys[i]]
        first == CHOOSE i \in 1..Len(ProbKeys) :
                    best(i) /\ \A j \in 1..(i - 1) : ~best(j)
    IN  ProbKeys[first]

\* alt_scenarios taken as every key that is not at the highest percentage.
alt_scenarios_not_highest(probs) ==
    LET max_prob == CHOOSE v \in {probs[ProbKeys[i]] : i \in 1..Len(ProbKeys)} :
                        \A i \in 1..Len(ProbKeys) : probs[ProbKeys[i]] <= v
        is_alt(k) == probs[k] # max_prob
    IN  SelectSeq(ProbKeys, is_alt)

\* min_prob = min(probs.values()); [k for k, v in probs.items() if v == min_prob]
alt_scenarios(probs) ==
    LET min_prob == CHOOSE v \in {probs[ProbKeys[i]] : i \in 1..Len(ProbKeys)} :
                        \A i \in 1..Len(ProbKeys) : v <= probs[ProbKeys[i]]
        is_alt(k) == probs[k] = min_prob
    IN  SelectSeq(ProbKeys, is_alt)

\* sep.join(names), as the sequence of the pieces of the resulting string.
RECURSIVE Join(_, _)
Join(sep, names) ==
    IF Len(names) = 0 THEN <<>>
    ELSE IF Len(names) = 1 THEN names
    ELSE <<Head(names), sep>> \o Join(sep, Tail(names))

\* The "Special Conditions Noted" lines, in the order they are appended.
conditions_noted(hi_reward_dii_vix, bear_trap_fii_pcr, oversold_bounce_risk) ==
    LET lines == (IF hi_reward_dii_vix THEN <<"High-Reward Potential">> ELSE <<>>)
                 \o (IF bear_trap_fii_pcr THEN <<"Bear-Trap Risk">> ELSE <<>>)
                 \o (IF oversold_bounce_risk THEN <<"Oversold Bounce Risk?">> ELSE <<>>)
    IN  IF lines = <<>>
        THEN <<"None of the predefined special conditions met.">>
        ELSE lines

build_report(tag_open, tag_sent, score, probs, factors, hi_reward_dii_vix, bear_trap_fii_pcr, oversold_bounce_risk) ==
    [ tag_open          |-> tag_open,
      tag_sent          |-> tag_sent,
      score             |-> score,
      probs             |-> probs,
      primary_scenario  |-> primary_scenario(probs),
      alt_scenario_text |-> Join(" or ", alt_scenarios(probs)),
      factors           |-> factors,
      conditions        |-> conditions_noted(hi_reward_dii_vix, bear_trap_fii_pcr,
                                             oversold_bounce_risk) ]

(***************************************************************************)
(* The form (lines 151-192).                                               *)
(***************************************************************************)

Fields == { "nifty_prev_close", "futures_prev_close", "gift_nifty_current",
            "dji_change_pct", "sp500_change_pct", "nasdaq_change_pct",
            "nikkei_change_pct", "hangseng_change_pct", "cboe_vix_change_pct",
            "crude_oil_change_pct", "india_vix_level", "gold_change_pct",
            "usd_inr_change_pct", "fii_net_crores", "dii_net_crores",
            "nifty_pcr_value" }

\* The value= argument of each number_input.
Default ==
    [ nifty_prev_close     |-> 2200000,
      futures_prev_close   |-> 2205000,
      gift_nifty_current   |-> 2210000,
      dji_change_pct       |-> 10,
      sp500_change_pct     |-> 15,
      nasdaq_change_pct    |-> 20,
      nikkei_change_pct    |-> 5,
      hangseng_change_pct  |-> -10,
      cboe_vix_change_pct  |-> 100,
      crude_oil_change_pct |-> -50,
      india_vix_level      |-> 1550,
      gold_change_pct      |-> 20,
      usd_inr_change_pct   |-> 5,
      fii_net_crores       |-> 500,
      dii_net_crores       |-> 300,
      nifty_pcr_value      |-> 100 ]

\* The values a user enters: each widget's thresholds, the values one step
\* either side of them, and zero where min_value=0.0 admits it.
Entered ==
    [ nifty_prev_close     |-> {0, 2190000},
      futures_prev_close   |-> {0, 2200000},
      gift_nifty_current   |-> {0, 2183499, 2183500, 2195600, 2195601, 2200000,
                                2204399, 2204400, 2216500, 2216501},
      dji_change_pct       |-> {-21, -20, 20, 21},
      sp500_change_pct     |-> {-21, -20, 20, 21},
      nasdaq_change_pct    |-> {-21, -20, 0, 21},
      nikkei_change_pct    |-> {-21, -20, 20, 21},
      hangseng_change_pct  |-> {-21, -20, 20, 21},
      cboe_vix_change_pct  |-> {-701, -700, 700, 701},
      crude_oil_change_pct |-> {-151, -150, 150, 151},
      india_vix_level      |-> {0, 1399, 1400, 2001, 2200, 2201},
      gold_change_pct      |-> {-101, -100, 100, 101},
      usd_inr_change_pct   |-> {-26, -25, 25, 26},
      fii_net_crores       |-> {-1001, -1000, -751, -750, 1000, 1001},
      dii_net_crores       |-> {-751, -750, 0, 750, 751},
      nifty_pcr_value      |-> {0, 30, 49, 50, 69, 70, 130, 131, 170, 171, 180} ]

(***************************************************************************)
(* The "if submitted:" block (lines 194-281).                              *)
(***************************************************************************)

\* pts_common_factors with pt_gold left out of the sum.
pts_common_factors_no_gold(us_market_total_pts, asian_market_total_pts, pt_gold, pt_cboe_vix, pt_india_vix, pt_pcr, pt_fii, pt_dii, pt_crude, pt_fx) ==
    us_market_total_pts + asian_market_total_pts +
    pt_cboe_vix + pt_india_vix + pt_pcr +
    pt_fii + pt_dii + pt_crude + pt_fx

pts_common_factors(us_market_total_pts, asian_market_total_pts, pt_gold, pt_cboe_vix, pt_india_vix, pt_pcr, pt_fii, pt_dii, pt_crude, pt_fx) ==
    us_market_total_pts + asian_market_total_pts +
    pt_gold + pt_cboe_vix + pt_india_vix + pt_pcr +
    pt_fii + pt_dii + pt_crude + pt_fx

dii_buying_high_vix(f) ==
    f.dii_net_crores > 0 /\ f.india_vix_level > 2200

fii_selling_low_pcr(f) ==
    f.fii_net_crores < -750 /\ f.nifty_pcr_value < 70

\* pcr_high_vix_high with "or" in place of "and".
pcr_high_vix_high_either(f) ==
    f.nifty_pcr_value > 170 \/ f.india_vix_level > 2000

pcr_high_vix_high(f) ==
    f.nifty_pcr_value > 170 /\ f.india_vix_level > 2000

\* The merge test with the opening classification left out.
aligned_by_sentiment(a) ==
    a.spot_overall_sentiment = a.futures_overall_sentiment

\* The condition of the "if" at line 259.
aligned(a) ==
    /\ a.spot_overall_sentiment = a.futures_overall_sentiment
    /\ a.spot_opening_classification = a.futures_opening_classification

\* Lines 195-256: every name the block binds before it renders.
Analyse(f) ==
    LET pt_dji      == get_us_individual_points(f.dji_change_pct)
        pt_sp500    == get_us_individual_points(f.sp500_change_pct)
        pt_nasdaq   == get_us_individual_points(f.nasdaq_change_pct)
        us_market_total_pts == pt_dji + pt_sp500 + pt_nasdaq
        pt_nikkei   == get_asian_individual_points(f.nikkei_change_pct)
        pt_hangseng == get_asian_individual_points(f.hangseng_change_pct)
        asian_market_total_pts == pt_nikkei + pt_hangseng
        pt_gold      == gold_points(f.gold_change_pct)
        pt_cboe_vix  == cboe_vix_points(f.cboe_vix_change_pct)
        pt_india_vix == india_vix_points(f.india_vix_level)
        pt_pcr       == pcr_points(f.nifty_pcr_value)
        pt_fii       == fii_dii_points(f.fii_net_crores, TRUE)
        pt_dii       == fii_dii_points(f.dii_net_crores, FALSE)
        pt_crude     == crude_oil_points(f.crude_oil_change_pct)
        pt_fx        == usd_inr_fx_points(f.usd_inr_change_pct)
        common == pts_common_factors(us_market_total_pts, asian_market_total_pts,
                                     pt_gold, pt_cboe_vix, pt_india_vix, pt_pcr,
                                     pt_fii, pt_dii, pt_crude, pt_fx)
        spot    == classify_market_opening(f.nifty_prev_close, f.gift_nifty_current)
        futures == classify_market_opening(f.futures_prev_close, f.gift_nifty_current)
        spot_final_score    == spot[2] + common
        futures_final_score == futures[2] + common
    IN  [ kind |-> "analysis",
          pt_dji |-> pt_dji, pt_sp500 |-> pt_sp500, pt_nasdaq |-> pt_nasdaq,
          us_market_total_pts |-> us_market_total_pts,
          pt_nikkei |-> pt_nikkei, pt_hangseng |-> pt_hangseng,
          asian_market_total_pts |-> asian_market_total_pts,
          pt_gold |-> pt_gold, pt_cboe_vix |-> pt_cboe_vix,
          pt_india_vix |-> pt_india_vix, pt_pcr |-> pt_pcr,
          pt_fii |-> pt_fii, pt_dii |-> pt_dii,
          pt_crude |-> pt_crude, pt_fx |-> pt_fx,
          pts_common_factors |-> common,
          spot_opening_classification |-> spot[1],
          spot_opening_pts            |-> spot[2],
          spot_final_score            |-> spot_final_score,
          spot_overall_sentiment      |-> aggregate_sentiment(spot_final_score),
          spot_scenario_probabilities |-> scenario_probs(spot_final_score),
          futures_opening_classification |-> futures[1],
          futures_opening_pts            |-> futures[2],
          futures_final_score            |-> futures_final_score,
          futures_overall_sentiment      |-> aggregate_sentiment(futures_final_score),
          futures_scenario_probabilities |-> scenario_probs(futures_final_score),
          base_factors_display |->
               ( "GIFT Nifty Implied Opening"        :> 0
              @@ "US Markets (Dow, S&P, Nasdaq)"     :> us_market_total_pts
              @@ "Asian Markets (Nikkei, Hang Seng)" :> asian_market_total_pts
              @@ "India VIX Level"                   :> pt_india_vix
              @@ "Nifty PCR"                         :> pt_pcr
              @@ "FII Net Flow"                      :> pt_fii
              @@ "DII Net Flow"                      :> pt_dii
              @@ "Crude Oil Change"                  :> pt_crude
              @@ "Gold Change"                       :> pt_gold
              @@ "USD/INR Change"                    :> pt_fx
              @@ "CBOE VIX Change"                   :> pt_cboe_vix ),
          dii_buying_high_vix |-> dii_buying_high_vix(f),
          fii_selling_low_pcr |-> fii_selling_low_pcr(f),
          pcr_high_vix_high   |-> pcr_high_vix_high(f) ]

Subheader(text) == [kind |-> "subheader", text |-> text]
Markdown(body)  == [kind |-> "markdown", body |-> body]
Caption         == [kind |-> "caption", text |-> "Disclaimer"]

\* Lines 259-281: what the block renders, in order.
Render(a) ==
    LET spot_report ==
            build_report(a.spot_opening_classification, a.spot_overall_sentiment,
                         a.spot_final_score, a.spot_scenario_probabilities,
                         [a.base_factors_display EXCEPT
                              !["GIFT Nifty Implied Opening"] = a.spot_opening_pts],
                         a.dii_buying_high_vix, a.fii_selling_low_pcr,
                         a.pcr_high_vix_high)
        futures_report ==
            build_report(a.futures_opening_classification, a.futures_overall_sentiment,
                         a.futures_final_score, a.futures_scenario_probabilities,
                         [a.base_factors_display EXCEPT
                              !["GIFT Nifty Implied Opening"] = a.futures_opening_pts],
                         a.dii_buying_high_vix, a.fii_selling_low_pcr,
                         a.pcr_high_vix_high)
    IN  IF aligned(a)
        THEN << Subheader("Consolidated Nifty Sentiment (Spot & Futures Aligned)"),
                Markdown(spot_report), Caption >>
        ELSE << Subheader("Nifty Spot Sentiment Analysis"), Markdown(spot_report),
                Subheader("Nifty Futures Sentiment Analysis"), Markdown(futures_report),
                Caption >>

(***************************************************************************)
(* The page as a state machine.  The script runs top to bottom on page     *)
(* load and on every press of the form's button; widgets inside st.form do *)
(* not rerun it.  Nothing is carried from one run to the next except the   *)
(* widgets' values, so the model follows the entries up to one submission  *)
(* per page load: a later submission is the same function of the widgets.  *)
(***************************************************************************)

Changed(f) == {w \in Fields : f[w] # Default[w]}

Init ==
    /\ form = Default
    /\ submitted = FALSE
    /\ analysis = None
    /\ page = <<>>
    /\ score_arg = 0
    /\ sent_ret = None
    /\ probs_ret = None
    /\ report_ret = None

\* The user types value v into widget w.
Edit(w, v) ==
    /\ ~submitted
    /\ form[w] # v
    /\ Cardinality(Changed([form EXCEPT ![w] = v])) <= MaxChanged
    /\ form' = [form EXCEPT ![w] = v]
    /\ UNCHANGED <<submitted, analysis, page, score_arg, sent_ret, probs_ret, report_ret>>

\* The user presses "Analyze Nifty Sentiment": lines 194-281 run on the
\* widgets' current values (pressing again without an edit renders the same).
Submit ==
    /\ submitted' = TRUE
    /\ analysis' = Analyse(form)
    /\ page' = Render(Analyse(form))
    /\ UNCHANGED <<form, score_arg, sent_ret, probs_ret, report_ret>>

\* The user reloads the page: the widgets are back at their defaults and the
\* script runs with submitted = False.
Reload ==
    /\ submitted
    /\ form' = Default
    /\ submitted' = FALSE
    /\ analysis' = None
    /\ page' = <<>>
    /\ UNCHANGED <<score_arg, sent_ret, probs_ret, report_ret>>

Next ==
    \/ \E w \in Fields : \E v \in Entered[w] \cup {Default[w]} : Edit(w, v)
    \/ Submit
    \/ Reload

Spec == Init /\ [][Next]_vars

(***************************************************************************)
(* The score classifiers called directly: aggregate_sentiment,             *)
(* scenario_probs and build_report are pure functions of the composite     *)
(* score, applied here to every score in -MaxScore .. MaxScore (the form   *)
(* reaches -16 .. 15).                                                     *)
(***************************************************************************)

InitScore ==
    /\ form = Default
    /\ submitted = FALSE
    /\ analysis = None
    /\ page = <<>>
    /\ score_arg \in -MaxScore..MaxScore
    /\ sent_ret = None
    /\ probs_ret = None
    /\ report_ret = None

CallAggregateSentiment ==
    /\ sent_ret = None
    /\ sent_ret' = Returned(aggregate_sentiment(score_arg))
    /\ UNCHANGED <<form, submitted, analysis, page, score_arg, probs_ret, report_ret>>

CallScenarioProbs ==
    /\ probs_ret = None
    /\ probs_ret' = Returned(scenario_probs(score_arg))
    /\ UNCHANGED <<form, submitted, analysis, page, score_arg, sent_ret, report_ret>>

\* build_report on the label and the probabilities returned for score_arg,
\* with the default form's opening, factors and flags.
CallBuildReport ==
    /\ sent_ret # None
    /\ probs_ret # None
    /\ report_ret = None
    /\ report_ret' =
          LET a == Analyse(Default)
          IN  Returned(build_report(a.spot_opening_classification, sent_ret.value,
                                    score_arg, probs_ret.value, a.base_factors_display,
                                    a.dii_buying_high_vix, a.fii_selling_low_pcr,
                                    a.pcr_high_vix_high))
    /\ UNCHANGED <<form, submitted, analysis, page, score_arg, sent_ret, probs_ret>>

NextScore ==
    \/ CallAggregateSentiment
    \/ CallScenarioProbs
    \/ CallBuildReport

SpecScore == InitScore /\ [][NextScore]_vars

(***************************************************************************)
(* Properties.                                                             *)
(***************************************************************************)

\* The reports on the page, in order.
IsReport(e) == e.kind = "markdown"
Reports(pg) == SelectSeq(pg, IsReport)

GapLabels == { "Flat Opening", "Gap Up Opening", "Gap Down Opening",
               "Huge Gap Up Opening", "Huge Gap Down Opening" }

\* C1: if the spot or the futures previous close of a submission is zero, no
\* report is produced for that submission.
C1_NoReportOnZeroReference ==
    (submitted /\ (form.nifty_prev_close = 0 \/ form.futures_prev_close = 0))
        => Reports(page) = <<>>

\* C2: with previous_close = 0, classify_market_opening returns
\* ("Data Error", 0) for every indicative value and never one of the five gap
\* labels.
C2_ZeroReferenceIsDataError ==
    submitted =>
        /\ form.nifty_prev_close = 0 =>
              /\ analysis.spot_opening_classification = "Data Error"
              /\ analysis.spot_opening_classification \notin GapLabels
              /\ analysis.spot_opening_pts = 0
        /\ form.futures_prev_close = 0 =>
              /\ analysis.futures_opening_classification = "Data Error"
              /\ analysis.futures_opening_classification \notin GapLabels
              /\ analysis.futures_opening_pts = 0

\* A submission with a zero spot previous close and a zero indicative value.
C2_Witness ==
    /\ submitted
    /\ form.nifty_prev_close = 0
    /\ form.gift_nifty_current = 0
    /\ analysis.spot_opening_classification = "Data Error"

\* The band the claim gives for previous_close p > 0 and indicative value g,
\* with pct = (g - p) / p * 100:  |pct| < 0.2 iff 100 * |g - p| * 5 < p, and
\* |pct| <= 0.75 iff 100 * |g - p| * 4 <= 3 * p; pct > 0 iff g > p.
C4_Band(p, g) ==
    LET mag == IF g >= p THEN g - p ELSE p - g
    IN  CASE 100 * mag * 5 < p                              -> <<"Flat Opening", 0>>
          [] 100 * mag * 5 >= p /\ 100 * mag * 4 <= 3 * p /\ g > p -> <<"Gap Up Opening", 1>>
          [] 100 * mag * 5 >= p /\ 100 * mag * 4 <= 3 * p /\ g < p -> <<"Gap Down Opening", -1>>
          [] 100 * mag * 4 > 3 * p /\ g > p                 -> <<"Huge Gap Up Opening", 2>>
          [] 100 * mag * 4 > 3 * p /\ g < p                 -> <<"Huge Gap Down Opening", -2>>

C6_PcrBands ==
    submitted =>
        LET v == form.nifty_pcr_value
            pt == analysis.pt_pcr
        IN  v >= 0 =>
              /\ v = 0 => pt = 0
              /\ v > 170 => pt = 1
              /\ (130 < v /\ v <= 170) => pt = -1
              /\ (70 <= v /\ v <= 130) => pt = 0
              /\ (50 <= v /\ v < 70) => pt = 1
              /\ (0 < v /\ v < 50) => pt = -1
              /\ v = 180 => pt = 1
              /\ v = 30 => pt = -1
              /\ v = 100 => pt = 0
              /\ pcr_return_line(v) # 54

\* A submission with the put/call ratio exactly at 0.7, the closed lower edge
\* of the neutral band.
C6_Witness ==
    /\ submitted
    /\ form.nifty_pcr_value = 70
    /\ analysis.pt_pcr = 0

\* The claim's symmetric band: nothing inside [-b, b], `up` above b and -up
\* below -b.
C7_InBand(x, b, up, pt) ==
    /\ Abs(x) <= b => pt = 0
    /\ x > b => pt = up
    /\ x < -b => pt = -up
    /\ pt \in {-1, 0, 1}

\* C7: every symmetric-band scorer returns 0 on [-b, b], edges included, and
\* +1 / -1 beyond it (index and flow scorers) or -1 / +1 (CBOE VIX, crude,
\* gold, USD/INR).
C7_SymmetricBands ==
    submitted =>
        /\ C7_InBand(form.dji_change_pct, 20, 1, analysis.pt_dji)
        /\ C7_InBand(form.sp500_change_pct, 20, 1, analysis.pt_sp500)
        /\ C7_InBand(form.nasdaq_change_pct, 20, 1, analysis.pt_nasdaq)
        /\ C7_InBand(form.nikkei_change_pct, 20, 1, analysis.pt_nikkei)
        /\ C7_InBand(form.hangseng_change_pct, 20, 1, analysis.pt_hangseng)
        /\ C7_InBand(form.cboe_vix_change_pct, 700, -1, analysis.pt_cboe_vix)
        /\ C7_InBand(form.fii_net_crores, 1000, 1, analysis.pt_fii)
        /\ C7_InBand(form.dii_net_crores, 750, 1, analysis.pt_dii)
        /\ C7_InBand(form.crude_oil_change_pct, 150, -1, analysis.pt_crude)
        /\ C7_InBand(form.gold_change_pct, 100, -1, analysis.pt_gold)
        /\ C7_InBand(form.usd_inr_change_pct, 25, -1, analysis.pt_fx)

\* A submission with gold exactly at +1.0 percent and crude just below -1.5.
C7_Witness ==
    /\ submitted
    /\ form.gold_change_pct = 100
    /\ analysis.pt_gold = 0
    /\ form.crude_oil_change_pct = -151
    /\ analysis.pt_crude = 1

\* The three flags as the claim defines them, as the set of the flags that hold.
C3_Flags(dii, vix, fii, pcr) ==
    (IF dii > 0 /\ vix > 2200 THEN {"high-reward"} ELSE {})
    \cup (IF fii < -750 /\ pcr < 70 THEN {"bear-trap"} ELSE {})
    \cup (IF pcr > 170 /\ vix > 2000 THEN {"oversold-bounce"} ELSE {})

\* The flag sets the four widgets behind the flags can produce.
C3_Attained ==
    { C3_Flags(dii, vix, fii, pcr) :
        dii \in Entered.dii_net_crores \cup {Default.dii_net_crores},
        vix \in Entered.india_vix_level \cup {Default.india_vix_level},
        fii \in Entered.fii_net_crores \cup {Default.fii_net_crores},
        pcr \in Entered.nifty_pcr_value \cup {Default.nifty_pcr_value} }

\* C3 as claimed: each of the 8 subsets of the three flags is the exact flag
\* set of some input.
C3_EverySubsetAttained ==
    submitted => C3_Attained = SUBSET {"high-reward", "bear-trap", "oversold-bounce"}

\* The flags a rendered report notes.
C3_Noted(report) ==
    { c \in {"High-Reward Potential", "Bear-Trap Risk", "Oversold Bounce Risk?"} :
        \E i \in 1..Len(report.conditions) : report.conditions[i] = c }

\* C3, amended: each flag is decided by its own two conditions and every
\* report notes exactly the flags that hold; bear-trap and oversold-bounce
\* never hold together, and the six subsets without that pair are the flag sets
\* that occur.
C3_SixSubsets ==
    submitted =>
        LET flags == C3_Flags(form.dii_net_crores, form.india_vix_level,
                              form.fii_net_crores, form.nifty_pcr_value)
        IN  /\ analysis.dii_buying_high_vix = ("high-reward" \in flags)
            /\ analysis.fii_selling_low_pcr = ("bear-trap" \in flags)
            /\ analysis.pcr_high_vix_high = ("oversold-bounce" \in flags)
            /\ ~(analysis.fii_selling_low_pcr /\ analysis.pcr_high_vix_high)
            /\ \A i \in 1..Len(Reports(page)) :
                  C3_Noted(Reports(page)[i].body) =
                      (IF analysis.dii_buying_high_vix THEN {"High-Reward Potential"} ELSE {})
                      \cup (IF analysis.fii_selling_low_pcr THEN {"Bear-Trap Risk"} ELSE {})
                      \cup (IF analysis.pcr_high_vix_high THEN {"Oversold Bounce Risk?"} ELSE {})
            /\ C3_Attained =
                  { S \in SUBSET {"high-reward", "bear-trap", "oversold-bounce"} :
                      ~({"bear-trap", "oversold-bounce"} \subseteq S) }

\* A report that notes bear-trap and nothing else.
C3_Witness ==
    /\ submitted
    /\ analysis.fii_selling_low_pcr
    /\ ~analysis.dii_buying_high_vix
    /\ ~analysis.pcr_high_vix_high
    /\ Reports(page)[1].body.conditions = <<"Bear-Trap Risk">>

\* The label and the triple the claim gives for a composite score.
C5_Label(s) ==
    CASE s >= 6             -> "Strongly Bullish"
      [] 2 <= s /\ s <= 5   -> "Mildly Bullish"
      [] -1 <= s /\ s <= 1  -> "Neutral / Range-bound"
      [] -5 <= s /\ s <= -2 -> "Mildly Bearish"
      [] s <= -6            -> "Strongly Bearish"

C5_Triple(s) ==
    CASE s >= 6             -> <<70, 20, 10>>
      [] 2 <= s /\ s <= 5   -> <<55, 30, 15>>
      [] -1 <= s /\ s <= 1  -> <<33, 34, 33>>
      [] -5 <= s /\ s <= -2 -> <<15, 30, 55>>
      [] s <= -6            -> <<10, 20, 70>>

\* C5: for every score aggregate_sentiment and scenario_probs pick the same
\* band of the cutoffs 6, 2, -2, -6, and Up + Side + Down = 100.
C5_SameBands ==
    /\ sent_ret # None => sent_ret.value = C5_Label(score_arg)
    /\ probs_ret # None =>
          /\ <<probs_ret.value.Up, probs_ret.value.Side, probs_ret.value.Down>>
                = C5_Triple(score_arg)
          /\ probs_ret.value.Up + probs_ret.value.Side + probs_ret.value.Down = 100
    /\ (sent_ret # None /\ probs_ret # None) =>
          \A s \in -MaxScore..MaxScore :
              (C5_Label(s) = sent_ret.value)
                  <=> (C5_Triple(s) = <<probs_ret.value.Up, probs_ret.value.Side,
                                         probs_ret.value.Down>>)

\* Both functions have returned for the score 6, the lowest strongly bullish one.
C5_Witness ==
    /\ score_arg = 6
    /\ sent_ret = Returned("Strongly Bullish")
    /\ probs_ret = Returned([Up |-> 70, Side |-> 20, Down |-> 10])

\* The sum of the values of a report's factor lines.
RECURSIVE SumOver(_, _)
SumOver(factors, names) ==
    IF names = {} THEN 0
    ELSE LET n == CHOOSE x \in names : TRUE
         IN  factors[n] + SumOver(factors, names \ {n})

\* The 13 scorer outputs for a form, summed from the last scorer to the first.
C8_ScorerSum(f) ==
    usd_inr_fx_points(f.usd_inr_change_pct)
    + crude_oil_points(f.crude_oil_change_pct)
    + fii_dii_points(f.dii_net_crores, FALSE)
    + fii_dii_points(f.fii_net_crores, TRUE)
    + pcr_points(f.nifty_pcr_value)
    + india_vix_points(f.india_vix_level)
    + cboe_vix_points(f.cboe_vix_change_pct)
    + gold_points(f.gold_change_pct)
    + get_asian_individual_points(f.hangseng_change_pct)
    + get_asian_individual_points(f.nikkei_change_pct)
    + get_us_individual_points(f.nasdaq_change_pct)
    + get_us_individual_points(f.sp500_change_pct)
    + get_us_individual_points(f.dji_change_pct)

\* The previous close a report on the page is about: the spot close for the
\* first report, the futures close for the second.
C8_Reference(i) ==
    IF i = 1 THEN form.nifty_prev_close ELSE form.futures_prev_close

\* C8: the composite score of every rendered report is the opening-gap point
\* of its reference plus the 13 scorer outputs, in whatever order they are
\* added, and the report's factor lines sum to that score; the default form
\* (22000, 22100, every other signal scoring 0) gives score 1, "Neutral /
\* Range-bound" and 33 / 34 / 33.
C8_CompositeScore ==
    submitted =>
        /\ \A i \in 1..Len(Reports(page)) :
              LET r == Reports(page)[i].body
              IN  /\ r.score = classify_market_opening(C8_Reference(i),
                                                       form.gift_nifty_current)[2]
                                   + C8_ScorerSum(form)
                  /\ SumOver(r.factors, DOMAIN r.factors) = r.score
        /\ (form.nifty_prev_close = 2200000 /\ form.gift_nifty_current = 2210000
                /\ C8_ScorerSum(form) = 0) =>
              LET r == Reports(page)[1].body
              IN  /\ r.score = 1
                  /\ r.tag_sent = "Neutral / Range-bound"
                  /\ r.probs = [Up |-> 33, Side |-> 34, Down |-> 33]

\* Two reports with different scores, gold scoring +1.
C8_Witness ==
    /\ submitted
    /\ Len(Reports(page)) = 2
    /\ Reports(page)[1].body.score # Reports(page)[2].body.score
    /\ analysis.pt_gold = 1

\* C9: one consolidated report if the spot and futures analyses have the same
\* opening classification and the same sentiment label, the spot and the
\* futures report otherwise; when consolidated, score, probabilities and gap
\* points of the two analyses are equal and the report shown is the one the
\* futures values give.
C9_MergeOrBoth ==
    submitted =>
        LET a == analysis
            same == /\ a.spot_opening_classification = a.futures_opening_classification
                    /\ a.spot_overall_sentiment = a.futures_overall_sentiment
            spot_factors == [a.base_factors_display EXCEPT
                                !["GIFT Nifty Implied Opening"] = a.spot_opening_pts]
            futures_factors == [a.base_factors_display EXCEPT
                                !["GIFT Nifty Implied Opening"] = a.futures_opening_pts]
            spot_report ==
                build_report(a.spot_opening_classification, a.spot_overall_sentiment,
                             a.spot_final_score, a.spot_scenario_probabilities,
                             spot_factors, a.dii_buying_high_vix,
                             a.fii_selling_low_pcr, a.pcr_high_vix_high)
            futures_report ==
                build_report(a.futures_opening_classification, a.futures_overall_sentiment,
                             a.futures_final_score, a.futures_scenario_probabilities,
                             futures_factors, a.dii_buying_high_vix,
                             a.fii_selling_low_pcr, a.pcr_high_vix_high)
        IN  /\ same =>
                  /\ Len(Reports(page)) = 1
                  /\ page[1].text = "Consolidated Nifty Sentiment (Spot & Futures Aligned)"
                  /\ a.spot_final_score = a.futures_final_score
                  /\ a.spot_scenario_probabilities = a.futures_scenario_probabilities
                  /\ a.spot_opening_pts = a.futures_opening_pts
                  /\ Reports(page)[1].body = spot_report
                  /\ Reports(page)[1].body = futures_report
            /\ ~same =>
                  /\ Len(Reports(page)) = 2
                  /\ page[1].text = "Nifty Spot Sentiment Analysis"
                  /\ page[3].text = "Nifty Futures Sentiment Analysis"
                  /\ Reports(page)[1].body = spot_report
                  /\ Reports(page)[2].body = futures_report

\* Spot and futures closes differ and scoring signals are present, yet the two
\* analyses agree and one consolidated report is rendered.
C9_Witness ==
    /\ submitted
    /\ form.nifty_prev_close # form.futures_prev_close
    /\ analysis.spot_opening_classification = "Huge Gap Down Opening"
    /\ analysis.pts_common_factors # 0
    /\ Len(Reports(page)) = 1

\* C10: the primary scenario is the one bucket strictly above the other two,
\* the alternates are the buckets at the lowest percentage joined with "or",
\* the primary is not an alternate, and the primary follows the label: Up
\* (alternate Down) when bullish, Down (alternate Up) when bearish, Side
\* (alternates Up or Down) when neutral.
C10_Scenarios ==
    report_ret # None =>
        LET r == report_ret.value
            keys == {"Up", "Side", "Down"}
            lowest == {k \in keys : \A j \in keys : r.probs[k] <= r.probs[j]}
            named == {k \in keys : \E i \in 1..Len(r.alt_scenario_text) :
                                       r.alt_scenario_text[i] = k}
        IN  /\ r.primary_scenario \in keys
            /\ \A k \in keys \ {r.primary_scenario} :
                  r.probs[k] < r.probs[r.primary_scenario]
            /\ named = lowest
            /\ Len(r.alt_scenario_text) = 2 * Cardinality(lowest) - 1
            /\ \A i \in 1..Len(r.alt_scenario_text) :
                  (i % 2 = 0) => r.alt_scenario_text[i] = " or "
            /\ r.primary_scenario \notin named
            /\ r.tag_sent \in {"Strongly Bullish", "Mildly Bullish"} =>
                  r.primary_scenario = "Up" /\ r.alt_scenario_text = <<"Down">>
            /\ r.tag_sent \in {"Strongly Bearish", "Mildly Bearish"} =>
                  r.primary_scenario = "Down" /\ r.alt_scenario_text = <<"Up">>
            /\ r.tag_sent = "Neutral / Range-bound" =>
                  /\ r.primary_scenario = "Side"
                  /\ r.alt_scenario_text = <<"Up", " or ", "Down">>

\* A report for a neutral score, where Up and Down tie for the lowest.
C10_Witness ==
    /\ report_ret # None
    /\ score_arg = -1
    /\ report_ret.value.alt_scenario_text = <<"Up", " or ", "Down">>

=============================================================================
